---- MODULE Spec2Model ----
(***************************************************************************)
(* The generation pipeline of the event-site server (src/app.py): the      *)
(* /generate handler with its fan-out of uploads to the shared thread      *)
(* pool, the manifest written to the raw store, and the two routes that    *)
(* resolve a page from its manifest.                                       *)
(*                                                                         *)
(* Text that the code processes (title, message lines) is a sequence of    *)
(* tokens, " " being whitespace; a file name is the sequence of its parts  *)
(* between dots, and an uploaded file is its file name.  None is Python's  *)
(* None: a value no input string equals.                                   *)
(***************************************************************************)
EXTENDS Integers, Sequences, FiniteSets, TLC

\* ------------------------------------------------------------------ bounds
MaxReq == 2
MaxFiles == 12
MaxLines == 30
UuidPrefixes == 2

\* ------------------------------------------------------- program constants
MAX_GALLERY == 8
MAX_MESSAGES == 20
MAX_WORKERS == 4

ALLOWED_IMAGES == {"png", "jpg", "jpeg", "gif", "webp"}
ALLOWED_MUSIC == {"mp3", "wav", "ogg"}

None == "<None>"
DEFAULT_NAME == "Friend"
DEFAULT_TEMPLATE == "birthday.html"
DEFAULT_MUSIC == "/static/default_music.mp3"
DEFAULT_GIFT == "/static/default_gift.png"
GENERIC_TITLE == <<"Celebration">>
GENERIC_ERROR == "An error occurred while generating your page."

\* The templates the code names: the keys of title_map and the two fixed pages.
TitleMap ==
  [t \in {"birthday.html", "anniversary.html", "birthday2.html", "birthday3.html"} |->
     CASE t = "birthday.html" -> <<"Happy Birthday">>
       [] t = "anniversary.html" -> <<"Happy Anniversary">>
       [] OTHER -> <<"Happy Birthday!">>]
TEMPLATES == DOMAIN TitleMap \cup {"gallery.html", "index.html"}

\* ---------------------------------------------------------- pure functions
Min(a, b) == IF a < b THEN a ELSE b

\* bool(x) of a str-or-None value
Truthy(v) == v # None /\ v # ""

\* a or b
Or(a, b) == IF Truthy(a) THEN a ELSE b

\* dict.get(key, default)
FormGet(form, key, default) == IF key \in DOMAIN form THEN form[key] ELSE default

IsSpace(c) == c = " "

RECURSIVE LStrip(_)
LStrip(s) == IF s # <<>> /\ IsSpace(Head(s)) THEN LStrip(Tail(s)) ELSE s

RECURSIVE RStrip(_)
RStrip(s) ==
  IF s # <<>> /\ IsSpace(s[Len(s)]) THEN RStrip(SubSeq(s, 1, Len(s) - 1)) ELSE s

\* str.strip()
Strip(s) == RStrip(LStrip(s))

\* str.lower() on the extensions the inputs use
Lower(e) ==
  CASE e = "PNG" -> "png"
    [] e = "Mp3" -> "mp3"
    [] e = "TXT" -> "txt"
    [] OTHER -> e

\* allowed(filename, types): '.' in filename and the last part, lowered, in types
allowed(filename, types) ==
  Len(filename) > 1 /\ Lower(filename[Len(filename)]) \in types

\* request.files.get() of a field the submission does not have
NoFile == <<>>

\* bool(file_obj): false for a missing file and for an empty file field, whose
\* filename is ''
FileGiven(f) == f # NoFile /\ f # <<"">>

RECURSIVE Join(_)
Join(parts) ==
  IF parts = <<>> THEN ""
  ELSE IF Len(parts) = 1 THEN parts[1]
  ELSE parts[1] \o "." \o Join(Tail(parts))

\* secure_filename(name).rsplit('.', 1)[0]: leading and trailing dots are
\* stripped, then the last extension is cut
SafeName(filename) ==
  LET kept == SelectSeq(filename, LAMBDA p : p # "")
  IN IF Len(kept) > 1 THEN Join(SubSeq(kept, 1, Len(kept) - 1)) ELSE Join(kept)

\* a faulty variant: the lines are cut to the cap before the blank ones are dropped
MessagesCutFirst(lines) ==
  LET cut == SubSeq(lines, 1, Min(MAX_MESSAGES, Len(lines)))
      stripped == [i \in 1..Len(cut) |-> Strip(cut[i])]
  IN SelectSeq(stripped, LAMBDA m : m # <<>>)

\* messages = [m.strip() for m in raw.split("\n") if m.strip()][:20]
Messages(lines) ==
  LET stripped == [i \in 1..Len(lines) |-> Strip(lines[i])]
      kept == SelectSeq(stripped, LAMBDA m : m # <<>>)
  IN SubSeq(kept, 1, Min(MAX_MESSAGES, Len(kept)))

\* the "safe title logic"
Title(user_title, template) ==
  IF user_title = <<>>
  THEN IF template \in DOMAIN TitleMap THEN TitleMap[template] ELSE GENERIC_TITLE
  ELSE user_title

\* uuid.uuid4(): a random value; .hex[:10] keeps its first ten hex digits
Uuid4 ==
  [hi : {"a" \o ToString(i) : i \in 1..UuidPrefixes}, lo : {"x", "y"}]
Hex10(u) == u.hi
UIDS == {Hex10(u) : u \in Uuid4}

FolderName(uid) == "birthday_app/" \o uid

\* what cloudinary.uploader.upload answers as secure_url
SecureUrl(resource_type, folder, public_id) ==
  "https://res.cloudinary.com/" \o resource_type \o "/upload/" \o folder \o "/" \o public_id

\* where upload_raw_task stores the manifest: folder/public_id
ManifestKey(uid) == FolderName(uid) \o "/" \o "manifest_" \o uid \o ".json"

\* the path get_manifest_from_cloudinary fetches under .../raw/upload/
ManifestUrlPath(uid) == "birthday_app/" \o uid \o "/manifest_" \o uid \o ".json"

\* ------------------------------------------------------------------- state
VARIABLES
  request,   \* per request: the multipart submission (form fields, files)
  pc,        \* per request: where the /generate handler stands
  loc,       \* per request: the handler's local variables
  resp,      \* per request: the response sent
  puts,      \* per request: the manifest uploads it has made, TRUE for a stored one
  fut,       \* the futures of the tasks submitted to the executor
  queue,     \* the executor's work queue
  running,   \* the tasks the executor's workers are running
  store,     \* the raw store that holds the manifests, by path
  clock,     \* time.time()
  view,      \* the last response of a page route
  overtaken  \* per request: a gallery upload finished before an earlier one

vars == <<request, pc, loc, resp, puts, fut, queue, running, store, clock, view, overtaken>>

Req == DOMAIN pc

NoResponse == [status |-> 0]
NoView == [route |-> "none"]

NoLocals ==
  [uid |-> None, name |-> None, title |-> <<>>, messages |-> <<>>, template |-> None,
   main_future |-> None, gift_future |-> None, gallery_futures |-> <<>>,
   music_future |-> None, remaining |-> <<>>,
   main_url |-> None, gift_url |-> None, gallery_urls |-> <<>>, music_url |-> None]

\* ------------------------------------------------------------ the executor
TaskId(r, prefix) == <<r, prefix>>

Pending(r, future) == future # None /\ fut[TaskId(r, future)].state = "pending"

\* a faulty variant: the result is read without waiting for the task
ReadyAtOnce(r, future) == TRUE

\* future.result() returns or raises once the task has run
Ready(r, future) == ~Pending(r, future)

\* upload_image_task: every exception of the upload is caught and None returned
upload_image_task(task, stored) ==
  [task EXCEPT !.state = "done",
               !.result = IF stored THEN SecureUrl("image", task.folder, task.public_id)
                          ELSE None]

\* a faulty variant: the music upload swallows its exception as the image upload does
upload_music_task_quiet(task, stored) ==
  [task EXCEPT !.state = "done",
               !.result = IF stored THEN SecureUrl("video", task.folder, task.public_id)
                          ELSE None]

\* upload_music_task: an exception of the upload is the future's exception
upload_music_task(task, stored) ==
  IF stored
  THEN [task EXCEPT !.state = "done",
                    !.result = SecureUrl("video", task.folder, task.public_id)]
  ELSE [task EXCEPT !.state = "raised"]

\* a faulty variant: a thread is started for every work item
CanStartUnbounded == queue # <<>>

\* a worker is free: it takes the next work item off the queue
CanStart == queue # <<>> /\ Cardinality(running) < MAX_WORKERS

WorkerStart ==
  /\ CanStart
  /\ running' = running \cup {Head(queue)}
  /\ queue' = Tail(queue)
  /\ UNCHANGED <<request, pc, loc, resp, puts, fut, store, clock, view, overtaken>>

\* gallery tasks of the same request submitted before t and not yet finished
EarlierUnfinished(t) ==
  LET g == loc[t[1]].gallery_futures
  IN {i \in 1..Len(g) :
        \E j \in 1..Len(g) : i < j /\ g[j] = t[2] /\ Pending(t[1], g[i])}

TaskComplete(t, stored) ==
  /\ t \in running
  /\ running' = running \ {t}
  /\ fut' = [fut EXCEPT ![t] = IF fut[t].kind = "music"
                               THEN upload_music_task(fut[t], stored)
                               ELSE upload_image_task(fut[t], stored)]
  /\ overtaken' = [overtaken EXCEPT ![t[1]] = @ \/ EarlierUnfinished(t) # {}]
  /\ UNCHANGED <<request, pc, loc, resp, puts, queue, store, clock, view>>

\* ------------------------------------------------------- /generate: dispatch
\* a faulty variant: any file that is given is uploaded, whatever its extension
handle_upload_any(file_obj, prefix) == IF FileGiven(file_obj) THEN prefix ELSE None

\* handle_upload: the future of the submitted upload, named by its prefix, or None
handle_upload(file_obj, prefix) ==
  IF FileGiven(file_obj) /\ allowed(file_obj, ALLOWED_IMAGES) THEN prefix ELSE None

GalleryPrefix(i) == "gallery_" \o ToString(i)

\* request.files.getlist("gallery")[:MAX_GALLERY]
GalleryFiles(files) == SubSeq(files.gallery, 1, Min(MAX_GALLERY, Len(files.gallery)))

GalleryFutures(files) ==
  LET g == GalleryFiles(files)
      f == [i \in 1..Len(g) |-> handle_upload(g[i], GalleryPrefix(i - 1))]
  IN SelectSeq(f, LAMBDA x : x # None)

MusicFuture(files) ==
  IF FileGiven(files.music) /\ allowed(files.music, ALLOWED_MUSIC)
  THEN "music" ELSE None

\* the work item executor.submit() queues for a file
NewTask(kind, file_obj, prefix, uid) ==
  [kind |-> kind, public_id |-> prefix \o "_" \o SafeName(file_obj),
   folder |-> FolderName(uid), state |-> "pending", result |-> None]

\* the work items of one request in the order of their submit() calls
Submitted(files, uid) ==
  LET g == GalleryFiles(files)
      one(future, kind, f) ==
        IF future = None THEN <<>>
        ELSE <<[prefix |-> future, task |-> NewTask(kind, f, future, uid)]>>
      gal == [i \in 1..Len(g) |->
                one(handle_upload(g[i], GalleryPrefix(i - 1)), "image", g[i])]
      RECURSIVE Flat(_)
      Flat(s) == IF s = <<>> THEN <<>> ELSE Head(s) \o Flat(Tail(s))
  IN one(handle_upload(files.main_image, "main"), "image", files.main_image)
     \o one(handle_upload(files.gift_image, "gift"), "image", files.gift_image)
     \o Flat(gal)
     \o one(MusicFuture(files), "music", files.music)

Generate(r) ==
  /\ pc[r] = "idle"
  /\ \E u \in Uuid4 :
       LET form == request[r].form
           files == request[r].files
           template == FormGet(form, "template", DEFAULT_TEMPLATE)
           uid == Hex10(u)
           sub == Submitted(files, uid)
       IN /\ loc' = [loc EXCEPT ![r] =
                       [NoLocals EXCEPT
                          !.uid = uid,
                          !.name = FormGet(form, "name", DEFAULT_NAME),
                          !.title = Title(Strip(FormGet(form, "title", <<>>)), template),
                          !.messages = Messages(FormGet(form, "messages", <<<<>>>>)),
                          !.template = template,
                          !.main_future = handle_upload(files.main_image, "main"),
                          !.gift_future = handle_upload(files.gift_image, "gift"),
                          !.gallery_futures = GalleryFutures(files),
                          !.remaining = GalleryFutures(files),
                          !.music_future = MusicFuture(files),
                          !.music_url = DEFAULT_MUSIC]]
          /\ fut' = fut @@ [t \in {TaskId(r, sub[i].prefix) : i \in 1..Len(sub)} |->
                              sub[CHOOSE i \in 1..Len(sub) : TaskId(r, sub[i].prefix) = t].task]
          /\ queue' = queue \o [i \in 1..Len(sub) |-> TaskId(r, sub[i].prefix)]
  /\ pc' = [pc EXCEPT ![r] = "main"]
  /\ UNCHANGED <<request, resp, puts, running, store, clock, view, overtaken>>

\* ------------------------------------------------ /generate: resolve futures
\* the generic error response of the handler's except clause
ErrorResponse == [status |-> 500, error |-> GENERIC_ERROR]

ResolveMain(r) ==
  /\ pc[r] = "main"
  /\ Ready(r, loc[r].main_future)
  /\ LET got == IF loc[r].main_future # None
                THEN fut[TaskId(r, loc[r].main_future)].result ELSE None
         main_url == IF Truthy(got) THEN got
                     ELSE FormGet(request[r].form, "main_image_selected", None)
     IN loc' = [loc EXCEPT ![r].main_url = main_url]
  /\ pc' = [pc EXCEPT ![r] = "gift"]
  /\ UNCHANGED <<request, resp, puts, fut, queue, running, store, clock, view, overtaken>>

ResolveGift(r) ==
  /\ pc[r] = "gift"
  /\ Ready(r, loc[r].gift_future)
  /\ LET got == IF loc[r].gift_future # None
                THEN fut[TaskId(r, loc[r].gift_future)].result ELSE None
         gift_url == IF Truthy(got) THEN got
                     ELSE Or(FormGet(request[r].form, "gift_image_selected", None),
                             DEFAULT_GIFT)
     IN loc' = [loc EXCEPT ![r].gift_url = gift_url]
  /\ pc' = [pc EXCEPT ![r] = "gallery"]
  /\ UNCHANGED <<request, resp, puts, fut, queue, running, store, clock, view, overtaken>>

\* a faulty variant: the loop takes the futures as they complete
NextCompleted(r, remaining) ==
  IF \E k \in 1..Len(remaining) : Ready(r, remaining[k])
  THEN CHOOSE k \in 1..Len(remaining) :
         Ready(r, remaining[k]) /\ \A j \in 1..(k - 1) : ~Ready(r, remaining[j])
  ELSE 1

\* which of the futures still to resolve the loop takes next: the first
NextFuture(r, remaining) == 1

\* one turn of "for fut in gallery_futures", the loop's exit when none is left
ResolveGallery(r) ==
  /\ pc[r] = "gallery"
  /\ IF loc[r].remaining = <<>>
     THEN /\ pc' = [pc EXCEPT ![r] = "music"]
          /\ UNCHANGED loc
     ELSE LET k == NextFuture(r, loc[r].remaining)
              future == loc[r].remaining[k]
              url == fut[TaskId(r, future)].result
          IN /\ Ready(r, future)
             /\ loc' = [loc EXCEPT
                          ![r].remaining = SubSeq(@, 1, k - 1) \o SubSeq(@, k + 1, Len(@)),
                          ![r].gallery_urls = IF Truthy(url) THEN Append(@, url) ELSE @]
             /\ UNCHANGED pc
  /\ UNCHANGED <<request, resp, puts, fut, queue, running, store, clock, view, overtaken>>

ResolveMusic(r) ==
  /\ pc[r] = "music"
  /\ Ready(r, loc[r].music_future)
  /\ IF loc[r].music_future # None
     THEN LET f == fut[TaskId(r, loc[r].music_future)]
          IN IF f.state = "raised"
             THEN /\ resp' = [resp EXCEPT ![r] = ErrorResponse]
                  /\ pc' = [pc EXCEPT ![r] = "done"]
                  /\ UNCHANGED loc
             ELSE /\ loc' = [loc EXCEPT ![r].music_url =
                                IF Truthy(f.result) THEN f.result ELSE @]
                  /\ pc' = [pc EXCEPT ![r] = "manifest"]
                  /\ UNCHANGED resp
     ELSE /\ loc' = [loc EXCEPT ![r].music_url =
                        Or(FormGet(request[r].form, "music_selected", None),
                           Or(FormGet(request[r].form, "music_option", None), @))]
          /\ pc' = [pc EXCEPT ![r] = "manifest"]
          /\ UNCHANGED resp
  /\ UNCHANGED <<request, puts, fut, queue, running, store, clock, view, overtaken>>

\* ------------------------------------------------- /generate: the manifest
ManifestData(r) ==
  [template |-> loc[r].template,
   created_at |-> clock,
   uid |-> loc[r].uid,
   context |->
     [name |-> loc[r].name,
      title |-> loc[r].title,
      messages |-> loc[r].messages,
      main_image |-> loc[r].main_url,
      gift_image |-> loc[r].gift_url,
      music |-> loc[r].music_url,
      gallery_link |-> "/generated/" \o loc[r].uid \o "/gallery",
      gallery_images |-> loc[r].gallery_urls]]

\* upload_raw_task: the secure_url of the stored manifest, None when the upload raised
upload_raw_task(uid, stored) ==
  IF stored THEN SecureUrl("raw", FolderName(uid), "manifest_" \o uid \o ".json") ELSE None

\* a faulty variant: the answer of the manifest upload is not looked at
ManifestSavedUnchecked(manifest_url) == TRUE

\* "if not manifest_url: raise"
ManifestSaved(manifest_url) == Truthy(manifest_url)

CreateManifest(r) ==
  /\ pc[r] = "manifest"
  /\ \E stored \in BOOLEAN :
       LET uid == loc[r].uid
           manifest_url == upload_raw_task(uid, stored)
       IN /\ puts' = [puts EXCEPT ![r] = Append(@, stored)]
          /\ store' = IF stored
                      THEN [k \in DOMAIN store \cup {ManifestKey(uid)} |->
                              IF k = ManifestKey(uid) THEN ManifestData(r) ELSE store[k]]
                      ELSE store
          /\ resp' = [resp EXCEPT ![r] =
                        IF ManifestSaved(manifest_url)
                        THEN [status |-> 200, link |-> "/generated/" \o uid \o "/", uid |-> uid]
                        ELSE ErrorResponse]
  /\ clock' = clock + 1
  /\ pc' = [pc EXCEPT ![r] = "done"]
  /\ UNCHANGED <<request, loc, fut, queue, running, view, overtaken>>

\* ------------------------------------------------------------ page serving
NETWORK == {"ok", "unreachable", "not json", "other json"}

\* None where the other values are records
NoData == [none |-> TRUE]
Raised == [raised |-> TRUE]

\* get_manifest_from_cloudinary: the manifest, or None on a status other than
\* 200 and on any exception of the fetch
get_manifest_from_cloudinary(uid, net) ==
  LET path == ManifestUrlPath(uid)
  IN CASE net = "unreachable" -> NoData
       [] net = "not json" -> NoData
       [] path \notin DOMAIN store -> NoData
       [] net = "other json" -> [other |-> TRUE]
       [] OTHER -> store[path]

\* render_template: the page, or Raised for a template that does not exist
\* and for a failure of the engine
render_template(template, context, engine_ok) ==
  IF template \in TEMPLATES /\ engine_ok
  THEN [template |-> template, context |-> context]
  ELSE Raised

NotFound(route, uid) == [route |-> route, uid |-> uid, status |-> 404]
Page(route, uid, body) == [route |-> route, uid |-> uid, status |-> 200, body |-> body]

\* a faulty variant: what is raised in the handler reaches the 500 handler
Uncaught(route, uid) == [route |-> route, uid |-> uid, status |-> 500]

\* what the handler's outer except clause makes of anything raised in it
Caught(route, uid) == NotFound(route, uid)

generated_page(uid, net, engine_ok) ==
  LET data == get_manifest_from_cloudinary(uid, net)
  IN IF data = NoData THEN Caught("page", uid)
     ELSE IF ~({"template", "context"} \subseteq DOMAIN data) THEN Caught("page", uid)
     ELSE LET body == render_template(data.template, data.context, engine_ok)
          IN IF body = Raised THEN Caught("page", uid) ELSE Page("page", uid, body)

gallery_page(uid, net, engine_ok) ==
  LET data == get_manifest_from_cloudinary(uid, net)
  IN IF data = NoData THEN Caught("gallery", uid)
     ELSE IF "context" \notin DOMAIN data THEN Caught("gallery", uid)
     ELSE LET ctx == data.context
              body == render_template("gallery.html",
                        [name |-> "Gallery", title |-> "Memories",
                         images |-> FormGet(ctx, "gallery_images", <<>>),
                         music |-> FormGet(ctx, "music", None)], engine_ok)
          IN IF body = Raised THEN Caught("gallery", uid) ELSE Page("gallery", uid, body)

PageIds == UIDS \cup {"nonexistent-id"}

GeneratedPage ==
  /\ \E uid \in PageIds, net \in NETWORK, engine_ok \in BOOLEAN :
       view' = generated_page(uid, net, engine_ok)
  /\ UNCHANGED <<request, pc, loc, resp, puts, fut, queue, running, store, clock, overtaken>>

GalleryPage ==
  /\ \E uid \in PageIds, net \in NETWORK, engine_ok \in BOOLEAN :
       view' = gallery_page(uid, net, engine_ok)
  /\ UNCHANGED <<request, pc, loc, resp, puts, fut, queue, running, store, clock, overtaken>>

\* ------------------------------------------------------------ submissions
EmptyForm == [k \in {} |-> None]

\* a field that is absent or has one of the values
Opt(key, values) == {EmptyForm} \cup {key :> v : v \in values}

NoFiles == [main_image |-> NoFile, gift_image |-> NoFile, music |-> NoFile, gallery |-> <<>>]

Numbered(n) ==
  [i \in 1..n |-> IF i % 2 = 0 THEN <<" ", "m" \o ToString(i)>>
                  ELSE <<"m" \o ToString(i), " ">>]

Spaced(n) == [i \in 1..n |-> IF i % 3 = 0 THEN <<" ", " ">> ELSE <<"s" \o ToString(i)>>]

MessageInputs ==
  {<<<<"Hi">>, <<>>, <<"There">>>>, Numbered(MAX_MESSAGES), Numbered(MaxLines),
   Spaced(MaxLines)}

\* submissions without files: the scalar fields vary
TextForms ==
  {[form |-> n @@ t @@ m @@ tpl, files |-> NoFiles] :
     n \in Opt("name", {"Alice"}),
     t \in Opt("title", {<<>>, <<" ", " ">>, <<" ", "Hi", " ">>}),
     m \in Opt("messages", MessageInputs),
     tpl \in Opt("template", {"birthday.html", "anniversary.html", "unknown.html", ""})}

SelectedProfiles ==
  {EmptyForm,
   ("main_image_selected" :> "/static/main/1.png") @@ ("gift_image_selected" :> "/static/gifts/2.png")
     @@ ("music_selected" :> "/static/music/3.mp3") @@ ("music_option" :> "/static/music/4.mp3"),
   ("main_image_selected" :> "") @@ ("gift_image_selected" :> "")
     @@ ("music_selected" :> "") @@ ("music_option" :> "/static/music/4.mp3"),
   ("music_option" :> "") @@ ("gift_image_selected" :> "/static/gifts/2.png")}

\* submissions whose single slots vary: no file, an empty file field, an
\* allowed file, a file the allow-list rejects
SlotForms ==
  {[form |-> sel,
    files |-> [main_image |-> mi, gift_image |-> gi, music |-> mu, gallery |-> <<>>]] :
     sel \in SelectedProfiles,
     mi \in {NoFile, <<"">>, <<"me", "PNG">>, <<"notes", "txt">>},
     gi \in {NoFile, <<"gift", "jpg">>, <<"gift">>},
     mu \in {NoFile, <<"song", "Mp3">>, <<"song", "png">>}}

Photos(n) == [i \in 1..n |-> <<"p" \o ToString(i), "jpg">>]

\* every third file is one the allow-list rejects
Mixed(n) ==
  [i \in 1..n |-> IF i % 3 = 2 THEN <<"doc" \o ToString(i), "TXT">>
                  ELSE <<"p" \o ToString(i), "png">>]

\* submissions with a gallery
GalleryForms ==
  {[form |-> EmptyForm, files |-> [NoFiles EXCEPT !.gallery = g, !.main_image = mi]] :
     mi \in {NoFile, <<"me", "png">>},
     g \in {Photos(2), Mixed(4), Mixed(MaxFiles)}}
  \cup {[form |-> "messages" :> Numbered(MaxLines),
         files |-> [NoFiles EXCEPT !.gallery = Photos(MaxFiles)]]}

Forms == TextForms \cup SlotForms \cup GalleryForms

\* the submissions whose pages are then served
ServedForms ==
  TextForms
  \cup {f \in SlotForms : f.form = EmptyForm /\ f.files.gift_image = NoFile}
  \cup {f \in GalleryForms : f.files.gallery = Mixed(4)}

\* the submissions of the requests that run side by side
ConcurrentForms ==
  {[form |-> EmptyForm, files |-> NoFiles],
   [form |-> "name" :> "Alice", files |-> [NoFiles EXCEPT !.gallery = Photos(3)]],
   [form |-> EmptyForm,
    files |-> [NoFiles EXCEPT !.main_image = <<"me", "png">>, !.music = <<"song", "mp3">>]]}

\* -------------------------------------------------------------------- specs
InitWith(requests) ==
  /\ request \in requests
  /\ pc = [r \in DOMAIN request |-> "idle"]
  /\ loc = [r \in DOMAIN request |-> NoLocals]
  /\ resp = [r \in DOMAIN request |-> NoResponse]
  /\ puts = [r \in DOMAIN request |-> <<>>]
  /\ overtaken = [r \in DOMAIN request |-> FALSE]
  /\ fut = [t \in {} |-> None]
  /\ queue = <<>>
  /\ running = {}
  /\ store = [k \in {} |-> None]
  /\ clock = 0
  /\ view = NoView

\* one request whose page is then served
Init == InitWith([{1} -> ServedForms])

\* one request, any submission
InitUploads == InitWith([{1} -> Forms])

\* requests with different submissions side by side on the one executor
InitConcurrent ==
  InitWith({f \in [1..MaxReq -> ConcurrentForms] :
              \A r, q \in 1..MaxReq : f[r] = f[q] => r = q})

\* the /generate handler and the executor
Pipeline ==
  \/ \E r \in Req : Generate(r)
  \/ \E r \in Req : ResolveMain(r)
  \/ \E r \in Req : ResolveGift(r)
  \/ \E r \in Req : ResolveGallery(r)
  \/ \E r \in Req : ResolveMusic(r)
  \/ \E r \in Req : CreateManifest(r)
  \/ WorkerStart
  \/ \E t \in running, stored \in BOOLEAN : TaskComplete(t, stored)

Next ==
  \/ Pipeline
  \/ GeneratedPage
  \/ GalleryPage

Spec == Init /\ [][Next]_vars

SpecUploads == InitUploads /\ [][Pipeline]_vars

SpecConcurrent == InitConcurrent /\ [][Pipeline]_vars

\* every upload call terminates, the workers and the request threads keep running
Fairness ==
  /\ WF_vars(WorkerStart)
  /\ WF_vars(\E t \in running, stored \in BOOLEAN : TaskComplete(t, stored))
  /\ \A r \in 1..MaxReq :
       WF_vars(ResolveMain(r) \/ ResolveGift(r) \/ ResolveGallery(r)
               \/ ResolveMusic(r) \/ CreateManifest(r))

SpecLive == InitConcurrent /\ [][Pipeline]_vars /\ Fairness

\* ------------------------------------------------------------------ claims
Done(r) == pc[r] = "done"
Succeeded(r) == Done(r) /\ resp[r].status = 200
TasksOf(r) == {t \in DOMAIN fut : t[1] = r}
Outstanding(r) == {t \in TasksOf(r) : fut[t].state = "pending"}

\* the Asset Store did not persist the blob of task t
Failed(t) == fut[t].state = "raised" \/ (fut[t].state = "done" /\ fut[t].result = None)
FailedOf(r, kind) == {t \in TasksOf(r) : fut[t].kind = kind /\ Failed(t)}

\* the response names no page
NoIdentifier(r) == DOMAIN resp[r] \cap {"uid", "link"} = {}
Aborted(r) == resp[r] = ErrorResponse /\ NoIdentifier(r) /\ puts[r] = <<>>

C3_PutAfterAllUploads ==
  \A r \in Req :
    /\ Len(puts[r]) <= 1
    /\ (puts[r] # <<>> \/ Done(r)) => Outstanding(r) = {}

\* a request with main, gallery and more uploads has put its manifest
C3_Witness ==
  \E r \in Req : Done(r) /\ Len(puts[r]) = 1 /\ Cardinality(TasksOf(r)) >= 3

\* the URL the upload of the i-th submitted gallery file returns
GalleryUrl(r, i) ==
  SecureUrl("image", FolderName(loc[r].uid),
            GalleryPrefix(i - 1) \o "_" \o SafeName(request[r].files.gallery[i]))

InSubmissionOrder(r, urls) ==
  \A p, q \in 1..Len(urls) :
    p < q => \E i, j \in 1..Len(request[r].files.gallery) :
               i < j /\ urls[p] = GalleryUrl(r, i) /\ urls[q] = GalleryUrl(r, j)

\* C4: the gallery URLs a request collects, and those of the manifest it
\* stores, stand in the submission order of their files, whatever the order
\* in which the uploads complete.
C4_GalleryOrder ==
  \A r \in Req :
    /\ InSubmissionOrder(r, loc[r].gallery_urls)
    /\ Succeeded(r) =>
         \E k \in DOMAIN store :
           /\ store[k].uid = resp[r].uid
           /\ InSubmissionOrder(r, store[k].context.gallery_images)

\* a later gallery upload finished before an earlier one, and both are listed
C4_Witness ==
  \E r \in Req :
    /\ Succeeded(r)
    /\ overtaken[r]
    /\ Len(loc[r].gallery_urls) >= 3
    /\ Len(loc[r].gallery_urls) = Len(loc[r].gallery_futures)

\* C2: a response names an identifier only when the request's one manifest
\* upload stored the manifest, and the fetch by that identifier then finds it;
\* a request whose manifest upload failed answers the error without identifier.
C2_ReturnedIdResolves ==
  \A r \in Req :
    /\ Succeeded(r) => /\ puts[r] = <<TRUE>>
                       /\ resp[r].link = "/generated/" \o resp[r].uid \o "/"
                       /\ get_manifest_from_cloudinary(resp[r].uid, "ok") # NoData
                       /\ get_manifest_from_cloudinary(resp[r].uid, "ok").uid = resp[r].uid
    /\ (Done(r) /\ ~Succeeded(r)) => resp[r] = ErrorResponse /\ NoIdentifier(r)
    /\ (Done(r) /\ puts[r] = <<FALSE>>) => ~Succeeded(r)

\* the page of a returned identifier has been served
C2_Witness ==
  \E r \in Req :
    /\ Succeeded(r)
    /\ view # NoView
    /\ view.route = "page" /\ view.uid = resp[r].uid /\ view.status = 200

\* the template field of the submission is none of the templates of title_map
UnknownTemplate(r) ==
  "template" \in DOMAIN request[r].form /\ request[r].form.template \notin DOMAIN TitleMap

\* C5 as stated: with an unknown template value the title is the generic one,
\* the manifest names the default template, and the page of the returned
\* identifier renders.
C5_UnknownTemplateFallsBack ==
  \A r \in Req :
    (Succeeded(r) /\ UnknownTemplate(r)) =>
      LET data == get_manifest_from_cloudinary(resp[r].uid, "ok")
      IN /\ "title" \in DOMAIN request[r].form \/ data.context.title = GENERIC_TITLE
         /\ data.template = DEFAULT_TEMPLATE
         /\ generated_page(resp[r].uid, "ok", TRUE).status = 200

\* the allow-list rejects the file given for the slot
Rejected(f, types) == FileGiven(f) /\ ~allowed(f, types)

PastMain(r) == pc[r] \in {"gift", "gallery", "music", "manifest"} \/ (Done(r) /\ puts[r] # <<>>)
PastGift(r) == pc[r] \in {"gallery", "music", "manifest"} \/ (Done(r) /\ puts[r] # <<>>)
PastMusic(r) == pc[r] = "manifest" \/ (Done(r) /\ puts[r] # <<>>)

\* the field's value when the submission supplies a non-empty one
Supplied(form, key) == key \in DOMAIN form /\ form[key] # ""

NonBlank(lines) == {i \in 1..Len(lines) : \E j \in 1..Len(lines[i]) : lines[i][j] # " "}

C8_PageOrNotFound ==
  view # NoView =>
    /\ view.status \in {200, 404}
    /\ view.status = 200 =>
         /\ ManifestUrlPath(view.uid) \in DOMAIN store
         /\ view.body # Raised
         /\ view.body.template \in TEMPLATES

\* NotFound for an identifier whose manifest is stored: the fetch or the
\* rendering raised
C8_Witness ==
  /\ view # NoView
  /\ view.status = 404
  /\ ManifestUrlPath(view.uid) \in DOMAIN store

\* C9 as stated: a manifest stored under an identifier stays the manifest of
\* the request that stored it.
C9_WriteOnce ==
  \A r \in Req :
    Succeeded(r) =>
      /\ ManifestKey(resp[r].uid) \in DOMAIN store
      /\ store[ManifestKey(resp[r].uid)].context = ManifestData(r).context

\* C10: at most 4 upload tasks run at a time, a task that ends submits nothing
\* to the executor, and every request that has been taken up responds.
C10_EveryRequestResponds ==
  /\ [](Cardinality(running) <= MAX_WORKERS)
  /\ [][running' \subseteq running /\ running' # running
          => queue' = queue /\ DOMAIN fut' = DOMAIN fut]_vars
  /\ \A r \in 1..MaxReq : (pc[r] # "idle") ~> Done(r)

\* all workers are busy and uploads of two requests wait in the queue
C10_Witness ==
  /\ Cardinality(running) = MAX_WORKERS
  /\ queue # <<>>
  /\ \E t, u \in running \cup {queue[i] : i \in 1..Len(queue)} : t[1] # u[1]

====
